---- MODULE Spec2Model ----
(***************************************************************************)
(* A model of swap.py: the batch loop of main, the two external probes     *)
(* (ffprobe, mkvmerge --identify) and the remux-with-rollback procedure of *)
(* set_default_audio_mkv_by_remux.                                         *)
(*                                                                         *)
(* A file name is a sequence of string components, <<stem, extension>>;    *)
(* appending ".bak" to a name appends a component.  All files live in one  *)
(* directory, and a video is never itself named .__temp__.mkv.             *)
(* Each external process and each filesystem call may succeed or fail.     *)
(* steps and log are history variables: they record what was done and are  *)
(* read by no action.                                                      *)
(***************************************************************************)
EXTENDS Integers, Sequences, FiniteSets, TLC

\* Longest audio-stream list ffprobe reports in the model.
MaxStreams == 2
\* Most tracks mkvmerge --identify lists for one container in the model.
MaxTracks == 2
\* Largest track ID of a direct call of the remuxer in the model.
MaxTrackId == 2
\* Longest track-ID list of a direct call of the remuxer in the model.
MaxIds == 2

VARIABLES
    video_files,   \* main: list(find_video_files(folder))
    idx,           \* main: position of the for loop in video_files (1-based)
    pc,            \* where the program is
    probeKind,     \* how the ffprobe call of this iteration ended ("none": not made)
    streams,       \* main: the probe result, each stream as (language, default) read by main
    mkvTracks,     \* the container's tracks as mkvmerge --identify sees them
    track_id_list, \* main: result of get_audio_track_ids
    track_id,      \* main / remuxer: the target track ID (NoId: None)
    all_ids,       \* main / remuxer: the track IDs handed to the remuxer
    video_path,    \* remuxer: the file being rewritten
    cmd,           \* remuxer: the mkvmerge command line built
    fs,            \* the directory: name -> content
    steps,         \* history: the filesystem and process steps of the current remux call
    result,        \* how the last remux call ended: "none", "True", "False", "raised"
    successes,     \* main: the Success records
    warnings,      \* main: the Warning records
    log,           \* history: external calls made by main and what they returned
    written        \* whether the two result files have been written

vars == <<video_files, idx, pc, probeKind, streams, mkvTracks, track_id_list,
          track_id, all_ids, video_path, cmd, fs, steps, result, successes,
          warnings, log, written>>

----------------------------------------------------------------------------
\* Strings and names

VIDEO_EXTENSIONS == {".mkv", ".mp4", ".mov", ".avi", ".m4v"}

\* str.lower() on the strings of the model.
Lower(s) ==
    CASE s = "ENG" -> "eng"
      [] s = ".MKV" -> ".mkv"
      [] s = ".AVI" -> ".avi"
      [] OTHER -> s

\* name.lower().endswith(ext): the last component of a name is its extension.
EndsWithLower(name, exts) == Lower(name[Len(name)]) \in exts

IsMkv(name) == EndsWithLower(name, {".mkv"})

find_video_files(listing) == SelectSeq(listing, LAMBDA f : EndsWithLower(f, VIDEO_EXTENSIONS))

\* The directory listings a run starts from.
DirListings ==
    { << <<"a", ".mkv">>, <<"notes", ".txt">>, <<"b", ".mp4">> >>,
      << <<"C", ".MKV">>, <<"a", ".mkv">>, <<"b", ".mp4">> >>,
      << <<"d", ".AVI">>, <<"a", ".mkv">> >> }

AllNames == { <<"a", ".mkv">>, <<"b", ".mp4">>, <<"C", ".MKV">>, <<"d", ".AVI">>,
              <<"notes", ".txt">> }

TmpOriginal(v) == Append(v, ".bak")

TmpNew == <<".__temp__", ".mkv">>

Paths == AllNames \cup { TmpOriginal(v) : v \in AllNames } \cup {TmpNew}

----------------------------------------------------------------------------
\* File contents

NoId == -1

NoFile == [kind |-> "none", of |-> <<>>, first |-> NoId]
Stale == [kind |-> "stale", of |-> <<>>, first |-> NoId]
Partial == [kind |-> "partial", of |-> <<>>, first |-> NoId]
Original(v) == [kind |-> "orig", of |-> v, first |-> NoId]

\* What a successful mkvmerge run writes: the input's streams, first track as ordered.
Rebuilt(input, order) == [kind |-> "rebuilt", of |-> input.of, first |-> order[1]]

Exists(f, p) == f[p].kind # "none"

\* os.rename(src, dst) when it succeeds: dst is replaced.
Rename(f, src, dst) == [f EXCEPT ![dst] = f[src], ![src] = NoFile]

\* os.remove(p) when it succeeds.
Remove(f, p) == [f EXCEPT ![p] = NoFile]

----------------------------------------------------------------------------
\* ffprobe and the audio-track list main builds from it

\* The streams ffprobe may report: tags.language, language, disposition.default
\* ("" and has_default = FALSE stand for a key that is absent).
RawStreams ==
    [tags_language : {"", "ENG", "jpn"}, language : {"", "eng"},
     has_default : {TRUE}, default : {0, 1}]
    \cup [tags_language : {"", "ENG", "jpn"}, language : {"", "eng"},
          has_default : {FALSE}, default : {0}]

RawLists == UNION { [1..n -> RawStreams] : n \in 0..MaxStreams }

\* How an ffprobe call ends.
ProbeOutcomes ==
    { [kind |-> "nonzero", raw |-> <<>>], [kind |-> "unparseable", raw |-> <<>>] }
    \cup { [kind |-> "ok", raw |-> r] : r \in RawLists }

\* (tags.language or language or "und").lower()
Language(s) ==
    Lower(IF s.tags_language # "" THEN s.tags_language
          ELSE IF s.language # "" THEN s.language
          ELSE "und")

\* s.get("disposition", {}).get("default", 0) == 1
IsDefault(s) == (IF s.has_default THEN s.default ELSE 0) = 1

\* The two values main reads from each stream of the probe result.
ReadStreams(raw) ==
    [i \in 1..Len(raw) |-> [language |-> Language(raw[i]), default |-> IsDefault(raw[i])]]

Tracks(strs) ==
    [i \in 1..Len(strs) |->
        [audio_index |-> i - 1, language |-> strs[i].language, default |-> strs[i].default]]

EnglishTracks(strs) == SelectSeq(Tracks(strs), LAMBDA t : t.language = "eng")

NOT_MKV == "Not MKV - cannot safely edit defaults"
MULTIPLE == "Multiple English audio tracks - manual review needed"
NO_TRACK_ID == "Could not determine mkvmerge track ID for English track"
FAILED == "Failed to set default track"
SET_DEFAULT == "Set English track as default"

\* Mutants of Decide: the checks of main in another order, or one of them dropped.
DecideMultipleFirst(video, strs) ==
    IF Len(strs) <= 1 THEN "skip"
    ELSE IF EnglishTracks(strs) = <<>> THEN "skip"
    ELSE IF Len(EnglishTracks(strs)) > 1 THEN "multiple"
    ELSE IF ~IsMkv(video) THEN "not_mkv"
    ELSE IF EnglishTracks(strs)[1].default THEN "skip"
    ELSE "identify"

DecideDefaultFirst(video, strs) ==
    IF Len(strs) <= 1 THEN "skip"
    ELSE IF EnglishTracks(strs) = <<>> THEN "skip"
    ELSE IF ~IsMkv(video) THEN "not_mkv"
    ELSE IF \E i \in 1..Len(EnglishTracks(strs)) : EnglishTracks(strs)[i].default THEN "skip"
    ELSE IF Len(EnglishTracks(strs)) > 1 THEN "multiple"
    ELSE "identify"

DecideNoDefaultCheck(video, strs) ==
    IF Len(strs) <= 1 THEN "skip"
    ELSE IF EnglishTracks(strs) = <<>> THEN "skip"
    ELSE IF ~IsMkv(video) THEN "not_mkv"
    ELSE IF Len(EnglishTracks(strs)) > 1 THEN "multiple"
    ELSE "identify"

\* main, lines 123-165: what is done with a probed file.
Decide(video, strs) ==
    IF Len(strs) <= 1 THEN "skip"
    ELSE IF EnglishTracks(strs) = <<>> THEN "skip"
    ELSE IF ~IsMkv(video) THEN "not_mkv"
    ELSE IF Len(EnglishTracks(strs)) > 1 THEN "multiple"
    ELSE IF EnglishTracks(strs)[1].default THEN "skip"
    ELSE "identify"

Warning(video, reason) == [file |-> video, reason |-> reason]

Success(video, tid) == [file |-> video, track_id |-> tid, action |-> SET_DEFAULT]

NoCmd == [output |-> <<>>, audio_tracks |-> <<>>, default_track |-> <<>>, input |-> <<>>]

\* The locals of one loop iteration, dead at the top of the next one.
ClearLocals ==
    /\ probeKind' = "none"
    /\ streams' = <<>>
    /\ mkvTracks' = <<>>
    /\ track_id_list' = <<>>
    /\ track_id' = NoId
    /\ all_ids' = <<>>
    /\ video_path' = <<>>
    /\ cmd' = NoCmd
    /\ steps' = <<>>
    /\ result' = "none"

\* Lines 121-165 of one iteration: probe_audio_tracks, then the checks that
\* skip the file, warn about it, or go on to the track-ID lookup.
\* json.loads raising on unparseable output is caught nowhere and ends main.
ProbeFile ==
    /\ pc = "loop"
    /\ idx <= Len(video_files)
    /\ \E out \in ProbeOutcomes :
         /\ probeKind' = out.kind
         /\ IF out.kind = "unparseable"
            THEN /\ pc' = "crashed"
                 /\ UNCHANGED <<streams, warnings>>
            ELSE LET strs == ReadStreams(out.raw)
                     what == Decide(video_files[idx], strs)
                 IN  /\ streams' = strs
                     /\ pc' = IF what = "identify" THEN "identify" ELSE "next"
                     /\ warnings' =
                          CASE what = "not_mkv" ->
                                 Append(warnings, Warning(video_files[idx], NOT_MKV))
                            [] what = "multiple" ->
                                 Append(warnings, Warning(video_files[idx], MULTIPLE))
                            [] OTHER -> warnings
    /\ UNCHANGED <<video_files, idx, mkvTracks, track_id_list, track_id, all_ids,
                   video_path, cmd, fs, steps, result, successes, log, written>>

\* Line 120: a continue, or the end of the loop body, takes the loop to the
\* next file.
NextVideo ==
    /\ pc = "next"
    /\ idx' = idx + 1
    /\ pc' = "loop"
    /\ ClearLocals
    /\ UNCHANGED <<video_files, fs, successes, warnings, log, written>>

----------------------------------------------------------------------------
\* mkvmerge --identify and get_audio_track_ids

TrackKinds == {"video", "audio"}

\* The tracks of a container; mkvmerge numbers them 0, 1, 2, ... in order.
TrackLists == UNION { [1..n -> TrackKinds] : n \in 0..MaxTracks }

IdToken(n) == CASE n = 0 -> "0:" [] n = 1 -> "1:" [] n = 2 -> "2:" [] OTHER -> "3:"

\* The lines mkvmerge --identify --verbose prints, each as its whitespace-split tokens.
IdentifyLines(tracks) ==
    << <<"File", "'video':", "container:", "Matroska">> >>
    \o [i \in 1..Len(tracks) |-> <<"Track", "ID", IdToken(i - 1), tracks[i], "(codec)">>]

IdentifyOutcomes ==
    { [ok |-> FALSE, tracks |-> <<>>] } \cup { [ok |-> TRUE, tracks |-> t] : t \in TrackLists }

\* "Track ID" in line
HasTrackID(line) == \E i \in 1..(Len(line) - 1) : line[i] = "Track" /\ line[i + 1] = "ID"

\* "audio" in line
HasAudio(line) == \E i \in 1..Len(line) : line[i] = "audio"

\* p.rstrip(":")
RStripColon(tok) ==
    CASE tok = "0:" -> "0" [] tok = "1:" -> "1" [] tok = "2:" -> "2" [] tok = "3:" -> "3"
      [] OTHER -> tok

\* int(s)
ToInt(s) == CASE s = "0" -> 0 [] s = "1" -> 1 [] s = "2" -> 2 [] s = "3" -> 3

\* Lines 55-59: the token after the first "ID" token, as an integer (NoId: no "ID" token).
TrackIdOf(parts) ==
    IF \E i \in 1..Len(parts) : parts[i] = "ID"
    THEN LET i == CHOOSE i \in 1..Len(parts) :
                    /\ parts[i] = "ID"
                    /\ \A j \in 1..(i - 1) : parts[j] # "ID"
         IN  ToInt(RStripColon(parts[i + 1]))
    ELSE NoId

RECURSIVE ParseLinesMut(_, _, _, _)
\* Mutant of ParseLines: the index counts every track line, not the audio lines only.
ParseLinesMut(lines, k, audio_idx, track_list) ==
    IF k > Len(lines) THEN track_list
    ELSE IF HasTrackID(lines[k]) /\ HasAudio(lines[k]) /\ TrackIdOf(lines[k]) # NoId
    THEN ParseLinesMut(lines, k + 1, audio_idx + 1,
             Append(track_list, [audio_index |-> audio_idx, track_id |-> TrackIdOf(lines[k])]))
    ELSE ParseLinesMut(lines, k + 1,
             IF HasTrackID(lines[k]) THEN audio_idx + 1 ELSE audio_idx, track_list)

RECURSIVE ParseLines(_, _, _, _)
\* Lines 50-62: the loop over the output lines, from line k on.
ParseLines(lines, k, audio_idx, track_list) ==
    IF k > Len(lines) THEN track_list
    ELSE IF HasTrackID(lines[k]) /\ HasAudio(lines[k]) /\ TrackIdOf(lines[k]) # NoId
    THEN ParseLines(lines, k + 1, audio_idx + 1,
             Append(track_list, [audio_index |-> audio_idx, track_id |-> TrackIdOf(lines[k])]))
    ELSE ParseLines(lines, k + 1, audio_idx, track_list)

get_audio_track_ids(out) ==
    IF ~out.ok THEN <<>> ELSE ParseLines(IdentifyLines(out.tracks), 1, 0, <<>>)

\* main, lines 171-176: the first entry of the list with this audio_index.
LookupTrackId(list, audio_index) ==
    IF \E i \in 1..Len(list) : list[i].audio_index = audio_index
    THEN LET i == CHOOSE i \in 1..Len(list) :
                    /\ list[i].audio_index = audio_index
                    /\ \A j \in 1..(i - 1) : list[j].audio_index # audio_index
         IN  list[i].track_id
    ELSE NoId

Event(ev, file, res) == [ev |-> ev, file |-> file, res |-> res]

\* main, lines 167-187: the track-ID lookup; a Warning when it finds nothing,
\* else the call of the remuxer.
GetTrackIds ==
    /\ pc = "identify"
    /\ \E out \in IdentifyOutcomes :
         LET video == video_files[idx]
             list == get_audio_track_ids(out)
             tid == LookupTrackId(list, EnglishTracks(streams)[1].audio_index)
         IN  /\ mkvTracks' = out.tracks
             /\ track_id_list' = list
             /\ track_id' = tid
             /\ IF tid = NoId
                THEN /\ warnings' = Append(warnings, Warning(video, NO_TRACK_ID))
                     /\ pc' = "next"
                     /\ log' = Append(log, Event("identify", video, IF out.ok THEN "ok" ELSE "failed"))
                     /\ UNCHANGED <<all_ids, video_path>>
                ELSE /\ all_ids' = [i \in 1..Len(list) |-> list[i].track_id]
                     /\ video_path' = video
                     /\ pc' = "rename"
                     /\ log' = log \o << Event("identify", video, "ok"), Event("remux", video, "called") >>
                     /\ UNCHANGED warnings
    /\ UNCHANGED <<video_files, idx, probeKind, streams, cmd, fs, steps, result, successes,
                   written>>

----------------------------------------------------------------------------
\* set_default_audio_mkv_by_remux

AudioTracksOrderMut(track_id_to_set, all_track_ids) == <<track_id_to_set>> \o all_track_ids

\* Line 77: the target first, then the other IDs in their order.
AudioTracksOrder(track_id_to_set, all_track_ids) ==
    <<track_id_to_set>> \o SelectSeq(all_track_ids, LAMBDA tid : tid # track_id_to_set)

\* Lines 86-90: one --default-track argument per track of the order.
DefaultTrackArgs(order, track_id_to_set) ==
    [i \in 1..Len(order) |->
        [tid |-> order[i], flag |-> IF order[i] = track_id_to_set THEN "yes" ELSE "no"]]

\* Lines 80-92: the mkvmerge command line.
BuildCmd(video, track_id_to_set, all_track_ids) ==
    LET order == AudioTracksOrder(track_id_to_set, all_track_ids)
    IN  [output |-> TmpNew,
         audio_tracks |-> order,
         default_track |-> DefaultTrackArgs(order, track_id_to_set),
         input |-> TmpOriginal(video)]

MainVars == <<video_files, idx, probeKind, streams, mkvTracks, track_id_list,
              successes, warnings, written>>

\* Line 74: os.rename(video_path, tmp_original), then the command line is built.
RenameOriginal ==
    /\ pc = "rename"
    /\ \E ok \in BOOLEAN :
         IF ok /\ Exists(fs, video_path)
         THEN /\ fs' = Rename(fs, video_path, TmpOriginal(video_path))
              /\ cmd' = BuildCmd(video_path, track_id, all_ids)
              /\ steps' = Append(steps, "renamed")
              /\ pc' = "mkvmerge"
         ELSE /\ steps' = Append(steps, "rename_failed")
              /\ pc' = "cleanup_temp"
              /\ UNCHANGED <<fs, cmd>>
    /\ UNCHANGED <<MainVars, log, track_id, all_ids, video_path, result>>

CommitTargetMut(video) == TmpOriginal(video)

\* Line 97: where the rebuilt file is renamed to.
CommitTarget(video) == video

\* Line 94: subprocess.run(cmd, check=True).  A failed run leaves the output
\* file as it was or partly written.
RunMkvmerge ==
    /\ pc = "mkvmerge"
    /\ \E out \in {"ok", "failed", "failed_partial"} :
         IF out = "ok" /\ Exists(fs, cmd.input)
         THEN /\ fs' = [fs EXCEPT ![cmd.output] = Rebuilt(fs[cmd.input], cmd.audio_tracks)]
              /\ steps' = Append(steps, "rebuilt")
              /\ pc' = "commit"
         ELSE /\ fs' = IF out = "failed_partial" THEN [fs EXCEPT ![cmd.output] = Partial] ELSE fs
              /\ steps' = Append(steps, "mkvmerge_failed")
              /\ pc' = "cleanup_temp"
    /\ UNCHANGED <<MainVars, log, track_id, all_ids, video_path, cmd, result>>

\* Line 97: os.rename(tmp_new, video_path).
CommitRename ==
    /\ pc = "commit"
    /\ \E ok \in BOOLEAN :
         IF ok /\ Exists(fs, TmpNew)
         THEN /\ fs' = Rename(fs, TmpNew, CommitTarget(video_path))
              /\ steps' = Append(steps, "committed")
              /\ pc' = "remove_bak"
         ELSE /\ steps' = Append(steps, "commit_failed")
              /\ pc' = "cleanup_temp"
              /\ UNCHANGED fs
    /\ UNCHANGED <<MainVars, log, track_id, all_ids, video_path, cmd, result>>

\* Lines 98-99: os.remove(tmp_original); return True.
RemoveBackup ==
    /\ pc = "remove_bak"
    /\ \E ok \in BOOLEAN :
         IF ok /\ Exists(fs, TmpOriginal(video_path))
         THEN /\ fs' = Remove(fs, TmpOriginal(video_path))
              /\ steps' = Append(steps, "bak_deleted")
              /\ result' = "True"
              /\ log' = Append(log, Event("return", video_path, "True"))
              /\ pc' = "ret"
         ELSE /\ steps' = Append(steps, "bak_delete_failed")
              /\ pc' = "cleanup_temp"
              /\ UNCHANGED <<fs, result, log>>
    /\ UNCHANGED <<MainVars, track_id, all_ids, video_path, cmd>>

\* Lines 101-105, the except handler: the temp file is removed when it exists.
\* os.remove raising here is caught by nothing: it leaves the function, and main.
CleanupTemp ==
    /\ pc = "cleanup_temp"
    /\ IF Exists(fs, TmpNew)
       THEN \E ok \in BOOLEAN :
              IF ok
              THEN /\ fs' = Remove(fs, TmpNew)
                   /\ steps' = Append(steps, "temp_deleted")
                   /\ pc' = "restore"
                   /\ UNCHANGED result
              ELSE /\ steps' = Append(steps, "temp_delete_failed")
                   /\ result' = "raised"
                   /\ pc' = "crashed"
                   /\ UNCHANGED fs
       ELSE /\ pc' = "restore"
            /\ UNCHANGED <<fs, steps, result>>
    /\ UNCHANGED <<MainVars, log, track_id, all_ids, video_path, cmd>>

\* Lines 106-108: the backup is renamed back when it exists; return False.
\* os.rename raising here leaves the function too.
RestoreBackup ==
    /\ pc = "restore"
    /\ IF Exists(fs, TmpOriginal(video_path))
       THEN \E ok \in BOOLEAN :
              IF ok
              THEN /\ fs' = Rename(fs, TmpOriginal(video_path), video_path)
                   /\ steps' = Append(steps, "restored")
                   /\ result' = "False"
                   /\ log' = Append(log, Event("return", video_path, "False"))
                   /\ pc' = "ret"
              ELSE /\ steps' = Append(steps, "restore_failed")
                   /\ result' = "raised"
                   /\ pc' = "crashed"
                   /\ UNCHANGED <<fs, log>>
       ELSE /\ result' = "False"
            /\ log' = Append(log, Event("return", video_path, "False"))
            /\ pc' = "ret"
            /\ UNCHANGED <<fs, steps>>
    /\ UNCHANGED <<MainVars, track_id, all_ids, video_path, cmd>>

RecordOutcomeMut ==
    /\ pc = "ret"
    /\ successes' = Append(successes, Success(video_path, track_id))
    /\ warnings' = IF result = "True" THEN warnings
                   ELSE Append(warnings, Warning(video_path, FAILED))
    /\ pc' = "next"
    /\ UNCHANGED <<video_files, idx, probeKind, streams, mkvTracks, track_id_list, track_id,
                   all_ids, video_path, cmd, fs, steps, result, log, written>>

\* main, lines 187-199: the remuxer has returned; one record is appended.
RecordOutcome ==
    /\ pc = "ret"
    /\ successes' = IF result = "True"
                    THEN Append(successes, Success(video_path, track_id))
                    ELSE successes
    /\ warnings' = IF result = "True" THEN warnings
                   ELSE Append(warnings, Warning(video_path, FAILED))
    /\ pc' = "next"
    /\ UNCHANGED <<video_files, idx, probeKind, streams, mkvTracks, track_id_list, track_id,
                   all_ids, video_path, cmd, fs, steps, result, log, written>>

\* main, lines 201-211: after the loop the two result files are written.
WriteResults ==
    /\ pc = "loop"
    /\ idx > Len(video_files)
    /\ written' = TRUE
    /\ pc' = "done"
    /\ UNCHANGED <<video_files, idx, probeKind, streams, mkvTracks, track_id_list,
                   track_id, all_ids, video_path, cmd, fs, steps, result, successes,
                   warnings, log>>

----------------------------------------------------------------------------
\* The specifications

\* A run of main: the folder has been scanned.  A backup name may be taken by
\* a stale file; a .__temp__.mkv present at the scan would be listed as a
\* video itself, so a run starts without one (SpecRemux covers that start).
Init ==
    /\ \E listing \in DirListings :
         /\ video_files = find_video_files(listing)
         /\ \E stale \in SUBSET { TmpOriginal(video_files[i]) : i \in 1..Len(video_files) } :
              fs = [p \in Paths |->
                      IF \E i \in 1..Len(listing) : listing[i] = p THEN Original(p)
                      ELSE IF p \in stale THEN Stale
                      ELSE NoFile]
    /\ idx = 1
    /\ pc = "loop"
    /\ probeKind = "none"
    /\ streams = <<>>
    /\ mkvTracks = <<>>
    /\ track_id_list = <<>>
    /\ track_id = NoId
    /\ all_ids = <<>>
    /\ video_path = <<>>
    /\ cmd = NoCmd
    /\ steps = <<>>
    /\ result = "none"
    /\ successes = <<>>
    /\ warnings = <<>>
    /\ log = <<>>
    /\ written = FALSE

Next ==
    \/ ProbeFile
    \/ NextVideo
    \/ GetTrackIds
    \/ RenameOriginal
    \/ RunMkvmerge
    \/ CommitRename
    \/ RemoveBackup
    \/ CleanupTemp
    \/ RestoreBackup
    \/ RecordOutcome
    \/ WriteResults

Spec == Init /\ [][Next]_vars

IdLists == UNION { [1..n -> 0..MaxTrackId] : n \in 0..MaxIds }

\* One call of set_default_audio_mkv_by_remux on a.mkv, with any target, any
\* ID list, and the backup and temp names free or taken by stale files.
InitRemux ==
    /\ video_files = << <<"a", ".mkv">> >>
    /\ video_path = <<"a", ".mkv">>
    /\ track_id \in 0..MaxTrackId
    /\ all_ids \in IdLists
    /\ \E stale \in SUBSET { TmpOriginal(video_path), TmpNew } :
         fs = [p \in Paths |->
                 IF p = video_path THEN Original(p)
                 ELSE IF p \in stale THEN Stale
                 ELSE NoFile]
    /\ idx = 1
    /\ pc = "rename"
    /\ probeKind = "none"
    /\ streams = <<>>
    /\ mkvTracks = <<>>
    /\ track_id_list = <<>>
    /\ cmd = NoCmd
    /\ steps = <<>>
    /\ result = "none"
    /\ successes = <<>>
    /\ warnings = <<>>
    /\ log = <<>>
    /\ written = FALSE

NextRemux ==
    \/ RenameOriginal
    \/ RunMkvmerge
    \/ CommitRename
    \/ RemoveBackup
    \/ CleanupTemp
    \/ RestoreBackup

SpecRemux == InitRemux /\ [][NextRemux]_vars

----------------------------------------------------------------------------
\* Vocabulary of the properties, stated on the state and not through the
\* operators that model the code.

CurVideo == video_files[idx]

\* A file has been probed and its iteration has not been left.
Probed == pc \notin {"loop", "done"} /\ probeKind \in {"ok", "nonzero"}

\* The file's name ends in .mkv, in either case.
MkvName(f) == f[Len(f)] \in {".mkv", ".MKV"}

\* Positions (1-based) of the English streams of the probed file.
EngPos == { i \in 1..Len(streams) : streams[i].language = "eng" }

TheEngPos == CHOOSE i \in EngPos : TRUE

WarningsFor(f) == { i \in 1..Len(warnings) : warnings[i].file = f }

SuccessesFor(f) == { i \in 1..Len(successes) : successes[i].file = f }

NoOutcome(f) == WarningsFor(f) = {} /\ SuccessesFor(f) = {}

\* Exactly one record exists for f, and it is a Warning with this reason.
OnlyWarning(f, reason) ==
    /\ SuccessesFor(f) = {}
    /\ Cardinality(WarningsFor(f)) = 1
    /\ \A i \in WarningsFor(f) : warnings[i].reason = reason

Events(ev, f) == { i \in 1..Len(log) : log[i].ev = ev /\ log[i].file = f }

ReturnedTrue(f) == \E i \in Events("return", f) : log[i].res = "True"

\* The iteration on the probed file is over.
IterationOver == pc = "next"

\* The file is where the scan found it, with its original content, and
\* neither the backup nor the temp name has come into use for it.
Untouched(f) == fs[f] = Original(f) /\ fs[TmpNew] = NoFile

\* The IDs of the container's audio tracks, in order (track i has ID i - 1).
RECURSIVE AudioIdsFrom(_, _)
AudioIdsFrom(tracks, k) ==
    IF k > Len(tracks) THEN <<>>
    ELSE IF tracks[k] = "audio" THEN <<k - 1>> \o AudioIdsFrom(tracks, k + 1)
    ELSE AudioIdsFrom(tracks, k + 1)

AudioIds == AudioIdsFrom(mkvTracks, 1)

RECURSIVE Without(_, _)
Without(L, t) ==
    IF L = <<>> THEN <<>>
    ELSE IF Head(L) = t THEN Without(Tail(L), t)
    ELSE <<Head(L)>> \o Without(Tail(L), t)

NoDuplicates(L) == \A i, j \in 1..Len(L) : L[i] = L[j] => i = j

InRemux == pc \in {"rename", "mkvmerge", "commit", "remove_bak", "cleanup_temp", "restore"}

CallEnded == pc \in {"ret", "crashed"} /\ steps # <<>>

Did(step) == \E i \in 1..Len(steps) : steps[i] = step

----------------------------------------------------------------------------
\* The claims

\* C1: whenever the remux process fails after the original was renamed to
\* <name>.bak, then when the call ends the original content is back at the
\* original path, the call has returned False, and neither <name>.bak nor
\* .__temp__.mkv exists, whatever stale files the directory started with.
C1_RemuxFailureRestores ==
    (Did("mkvmerge_failed") /\ CallEnded) =>
        /\ result = "False"
        /\ fs[video_path] = Original(video_path)
        /\ ~Exists(fs, TmpOriginal(video_path))
        /\ ~Exists(fs, TmpNew)

\* C2: set_default_audio_mkv_by_remux never raises: a call that has ended has
\* returned True or False, also when a rollback step failed, and main is not
\* ended by it.
C2_NeverRaises ==
    /\ result \in {"none", "True", "False"}
    /\ (CallEnded => pc = "ret" /\ result \in {"True", "False"})

\* C3 as claimed: a file of any extension, with any number of streams, whose
\* only English stream is already default gets no Success, no Warning and no
\* identify or remux call.
C3_AlreadyDefaultAnyFile ==
    (Probed /\ Cardinality(EngPos) = 1 /\ streams[TheEngPos].default) =>
        /\ NoOutcome(CurVideo)
        /\ Events("identify", CurVideo) = {}
        /\ Events("remux", CurVideo) = {}

\* C3 amended: a file that is an .mkv, or has at most one audio stream, and
\* whose only English stream is already default gets no Success, no Warning
\* and no identify or remux call, and is left as it was.
C3_AlreadyDefaultMkv ==
    (/\ Probed
     /\ Cardinality(EngPos) = 1
     /\ streams[TheEngPos].default
     /\ (MkvName(CurVideo) \/ Len(streams) <= 1)) =>
        /\ IterationOver
        /\ NoOutcome(CurVideo)
        /\ Events("identify", CurVideo) = {}
        /\ Events("remux", CurVideo) = {}
        /\ fs[CurVideo] = Original(CurVideo)

C3_Witness ==
    /\ IterationOver
    /\ MkvName(CurVideo)
    /\ Len(streams) >= 2
    /\ Cardinality(EngPos) = 1
    /\ streams[TheEngPos].default

\* C4 as claimed: a file that is not an .mkv and has an English stream that
\* is not default, whatever its number of streams, gets exactly one Warning
\* "Not MKV - cannot safely edit defaults", no Success, and no identify or
\* remux call.
C4_NotMkvAnyStreams ==
    (/\ Probed
     /\ ~MkvName(CurVideo)
     /\ \E i \in EngPos : ~streams[i].default) =>
        /\ OnlyWarning(CurVideo, NOT_MKV)
        /\ Events("identify", CurVideo) = {}
        /\ Events("remux", CurVideo) = {}

\* C4 amended: a file that is not an .mkv, has at least two audio streams and
\* an English stream that is not default gets exactly one Warning "Not MKV -
\* cannot safely edit defaults", no Success, and no identify or remux call.
C4_NotMkvWarned ==
    (/\ Probed
     /\ ~MkvName(CurVideo)
     /\ Len(streams) >= 2
     /\ \E i \in EngPos : ~streams[i].default) =>
        /\ IterationOver
        /\ OnlyWarning(CurVideo, NOT_MKV)
        /\ Events("identify", CurVideo) = {}
        /\ Events("remux", CurVideo) = {}
        /\ fs[CurVideo] = Original(CurVideo)

C4_Witness ==
    /\ IterationOver
    /\ ~MkvName(CurVideo)
    /\ Cardinality(EngPos) >= 2
    /\ \E i \in EngPos : ~streams[i].default
    /\ OnlyWarning(CurVideo, NOT_MKV)

\* C5: an .mkv file with more than one English stream gets exactly one
\* Warning "Multiple English audio tracks - manual review needed" and no
\* identify or remux call, whatever the default flags of those streams.
C5_MultipleEnglishWarned ==
    (Probed /\ MkvName(CurVideo) /\ Cardinality(EngPos) > 1) =>
        /\ IterationOver
        /\ OnlyWarning(CurVideo, MULTIPLE)
        /\ Events("identify", CurVideo) = {}
        /\ Events("remux", CurVideo) = {}
        /\ fs[CurVideo] = Original(CurVideo)

C5_Witness ==
    /\ IterationOver
    /\ MkvName(CurVideo)
    /\ Cardinality(EngPos) > 1
    /\ \E i \in EngPos : streams[i].default
    /\ \E i \in EngPos : ~streams[i].default
    /\ OnlyWarning(CurVideo, MULTIPLE)

\* C6: probe_audio_tracks gives the empty list when ffprobe exits non-zero
\* and when its output is unparseable; the file then gets no record and no
\* remux, and the run goes on to the next file.
C6_ProbeFailureSkips ==
    (probeKind \in {"nonzero", "unparseable"}) =>
        /\ IterationOver
        /\ streams = <<>>
        /\ NoOutcome(CurVideo)
        /\ Events("remux", CurVideo) = {}

\* C7: over a run every file gets at most one record in successes and
\* warnings together, the remuxer is called for it at most once, and it has a
\* Success record exactly when the remuxer was called for it and returned
\* True (the record follows the return in the next step of main).
C7_OneTerminalAction ==
    \A k \in 1..Len(video_files) :
        LET f == video_files[k]
        IN  /\ Cardinality(WarningsFor(f)) + Cardinality(SuccessesFor(f)) <= 1
            /\ Cardinality(Events("remux", f)) <= 1
            /\ Cardinality(Events("return", f)) <= Cardinality(Events("remux", f))
            /\ (SuccessesFor(f) # {} => ReturnedTrue(f))
            /\ ((ReturnedTrue(f) /\ pc # "ret") => SuccessesFor(f) # {})
            /\ (pc = "done" => (SuccessesFor(f) # {} <=> ReturnedTrue(f)))

C7_Witness ==
    /\ pc = "done"
    /\ written
    /\ Len(successes) = 1
    /\ Len(warnings) = 1
    /\ \E k \in 1..Len(video_files) : ReturnedTrue(video_files[k])

\* C8: the English stream at probe position i of an .mkv resolves to the ID
\* of the container's i-th audio track (0-based, in line order); that ID is
\* the target given to the remuxer and the track_id of the Success record.
\* When the identifier reports fewer than i+1 audio tracks (none when it
\* fails), the file gets exactly one Warning "Could not determine mkvmerge
\* track ID for English track" and is neither renamed nor remuxed.
C8_TrackIdMapping ==
    (Probed /\ Events("identify", CurVideo) # {}) =>
        /\ Cardinality(EngPos) = 1
        /\ IF Len(AudioIds) >= TheEngPos
           THEN /\ Cardinality(Events("remux", CurVideo)) = 1
                /\ video_path = CurVideo
                /\ track_id = AudioIds[TheEngPos]
                /\ all_ids = AudioIds
                /\ WarningsFor(CurVideo) # {} =>
                     \A i \in WarningsFor(CurVideo) : warnings[i].reason = FAILED
                /\ \A i \in SuccessesFor(CurVideo) :
                     successes[i] = [file |-> CurVideo, track_id |-> AudioIds[TheEngPos],
                                     action |-> SET_DEFAULT]
           ELSE /\ IterationOver
                /\ OnlyWarning(CurVideo, NO_TRACK_ID)
                /\ Events("remux", CurVideo) = {}
                /\ steps = <<>>
                /\ Untouched(CurVideo)

\* A Success record whose track is not the container's first audio track.
C8_Witness ==
    /\ IterationOver
    /\ EngPos = {2}
    /\ AudioIds = <<0, 1>>
    /\ SuccessesFor(CurVideo) # {}
    /\ \A i \in SuccessesFor(CurVideo) : successes[i].track_id = 1

\* The lookup fails: the English stream is the second one, one audio line.
C8_WitnessNoId ==
    /\ IterationOver
    /\ EngPos = {2}
    /\ Len(AudioIds) = 1
    /\ OnlyWarning(CurVideo, NO_TRACK_ID)

\* C9: when the call returns True its steps were, in this order, the rename
\* of the original to <name>.bak, the remux from the backup into
\* .__temp__.mkv, the rename of the temp file onto the original path and the
\* removal of the backup; the rebuilt container is then at the original path
\* and neither <name>.bak nor .__temp__.mkv exists.  At every state before
\* that, the original content is at the original path or at <name>.bak.
C9_CommitOrder ==
    /\ (result = "True" =>
          /\ ~InRemux
          /\ steps = <<"renamed", "rebuilt", "committed", "bak_deleted">>
          /\ cmd.input = TmpOriginal(video_path)
          /\ cmd.output = TmpNew
          /\ fs[video_path] =
               [kind |-> "rebuilt", of |-> video_path, first |-> track_id]
          /\ ~Exists(fs, TmpOriginal(video_path))
          /\ ~Exists(fs, TmpNew))
    /\ (pc = "rename" => steps = <<>> /\ fs[video_path] = Original(video_path))
    /\ (pc = "mkvmerge" =>
          /\ steps = <<"renamed">>
          /\ ~Exists(fs, video_path)
          /\ fs[TmpOriginal(video_path)] = Original(video_path))
    /\ (pc = "commit" =>
          /\ steps = <<"renamed", "rebuilt">>
          /\ ~Exists(fs, video_path)
          /\ fs[TmpOriginal(video_path)] = Original(video_path)
          /\ fs[TmpNew].kind = "rebuilt")
    /\ (pc = "remove_bak" =>
          /\ steps = <<"renamed", "rebuilt", "committed">>
          /\ fs[video_path].kind = "rebuilt"
          /\ fs[TmpOriginal(video_path)] = Original(video_path)
          /\ ~Exists(fs, TmpNew))

\* A call that returned True, the target being one of the IDs of the list.
C9_Witness ==
    /\ result = "True"
    /\ pc = "ret"
    /\ fs[video_path].kind = "rebuilt"
    /\ track_id \in { all_ids[i] : i \in 1..Len(all_ids) }

====
